---- MODULE Spec2Model ----
(***************************************************************************)
(* A model of calcite's interlocking task executor:                        *)
(*   interlock/cell.rs     CountCell, the one-word atomic state machine    *)
(*   interlock/builder.rs  InterlockBuilder::build, the graph compiler     *)
(*   interlock/context.rs  Context, the fork/join driver of one run        *)
(*   interlock/task.rs     Task / TaskRef, the compiled record and handle  *)
(* Every atomic read-modify-write of a cell word is one step of the model; *)
(* the closures joined by rayon::join interleave freely.                   *)
(***************************************************************************)
EXTENDS Integers, Sequences, FiniteSets, TLC

VARIABLES
    builderTasks,   \* InterlockBuilder.tasks: the declared tasks, in declaration order
    added,          \* the TaskIds the add calls on the builder have returned, in call order
    tasks,          \* InterlockExecutor.tasks: TaskId -> compiled record
    borrow,         \* TaskId -> the word of the task's CountCell
    stage,          \* where Executable::run of the executor is
    rpos,           \* Context::new: index of the next task to init()
    runs,           \* number of run() calls that have returned
    iter,           \* per iterator (take_unlocked, or unlock(&t) of task t): its position
    head,           \* TaskId -> where the handle (TaskRef) and its head closure are
    parent,         \* TaskId -> the iterator whose run_iterator took the task
    execs,          \* TaskId -> closure invocations in the current run
    panicked,       \* "none", or which panic! was reached
    cell,           \* the word of one CountCell used on its own
    wk,             \* per worker thread: where it is in a call on that cell
    last,           \* the last call on that cell that has returned or panicked
    takes,          \* successful take() calls since the last successful reset()
    ncalls          \* calls made on that cell

execVars == <<builderTasks, added, tasks, borrow, stage, rpos, runs, iter, head, parent,
              execs, panicked>>
cellVars == <<cell, wk, last, takes, ncalls>>
vars == <<execVars, cellVars>>

----------------------------------------------------------------------------
(* Bounds of the model *)

\* width of the atomic word (usize in the source), in bits
WordBits == 6
\* number of consecutive run() calls on one executor
MaxRuns == 2
\* length of the pure-chain graph
ChainLen == 3
\* readers in the fan-out graph
FanOut == 2
\* writers in the write-contention graph
Writers == 2
\* writers in the write-contention graph that is run on its own
Contenders == 3
\* worker threads calling into the CountCell used on its own
NumWorkers == 2
\* calls made on that cell
MaxCalls == 6
\* largest predecessor count that cell is reset to (besides CNT_MASK)
MaxInit == 2
\* add calls made on a builder that is followed call by call
MaxTasks == 3

----------------------------------------------------------------------------
(* interlock/cell.rs *)

WordMod == 2 ^ WordBits
LOCK_BIT == 2 ^ (WordBits - 1)
COMP_BIT == 2 ^ (WordBits - 2)
CNT_MASK == COMP_BIT - 1

\* w & CNT_MASK
Cnt(w) == w % COMP_BIT
\* the two state bits of w: 0 none, 1 COMP_BIT, 2 LOCK_BIT, 3 both
Bits(w) == w \div COMP_BIT

\* an increment that is not stored
fetch_add_none(w) == w
\* AtomicUsize::fetch_add(1) / fetch_sub(1): the stored value (wrapping)
fetch_add(w) == (w + 1) % WordMod
fetch_sub(w) == (w + WordMod - 1) % WordMod

\* a reset that looks at the state bits only
reset_ok_bits(w) == Bits(w) = 1
\* CountCell::reset: the compare_exchange(COMP_BIT, value) succeeds
reset_ok(w) == w = COMP_BIT

\* CountCell::lock: new == COMP_BIT, the overflow panic
lock_panics(w) == fetch_add(w) = COMP_BIT

\* an underflow test on the whole word instead of the counter bits
unlock_panics_word(w) == w = 0
\* an underflow test that is off by one
unlock_panics_low(w) == Cnt(w) <= 1
\* CountCell::unlock: old & CNT_MASK == 0, the underflow panic
unlock_panics(w) == Cnt(w) = 0
\* readiness tested on the counter bits only, and on the value left behind
unlock_result_low(w) == Cnt(w) = 1
unlock_result_zero(w) == w = 0
\* CountCell::unlock: the value returned, old == 1
unlock_result(w) == w = 1

\* a take that looks at the counter bits only
take_ok_any(w) == Cnt(w) = 0
\* CountCell::take: the compare_exchange(0, LOCK_BIT) succeeds
take_ok(w) == w = 0

\* a release that stores COMP_BIT over the whole word
drop_store(w) == COMP_BIT
\* a release that sets COMP_BIT and leaves LOCK_BIT (fetch_or(COMP_BIT))
drop_or(w) == IF Bits(w) \in {1, 3} THEN w ELSE w + COMP_BIT
\* Drop for CountRef: fetch_xor(LOCK_BIT | COMP_BIT)
drop(w) == (3 - Bits(w)) * COMP_BIT + Cnt(w)

----------------------------------------------------------------------------
(* interlock/builder.rs *)

\* an id read after the push instead of before it
add_box_id_after(b) == Len(b) + 1
\* InterlockBuilder::add_box on a builder holding b: the id it returns,
\* TaskId::new(self.tasks.len())
add_box_id(b) == Len(b)
\* the ids returned by the add calls that declared b
AddedIds(b) == [k \in 1 .. Len(b) |-> add_box_id(SubSeq(b, 1, k - 1))]

\* TaskBuilder of TaskId id
TB(b, id) == b[id + 1]
Ids(b) == 0 .. (Len(b) - 1)

\* read_map / write_map .get_vec(res), as the set of its TaskIds
read_map(b, res) == {id \in Ids(b) : res \in TB(b, id).reads}
write_map(b, res) == {id \in Ids(b) : res \in TB(b, id).writes}
Resources(b) == UNION {TB(b, id).reads \cup TB(b, id).writes : id \in Ids(b)}

\* a write pass without the `current != next` test
WritePass_self(b, next) ==
    {current \in Ids(b) :
        \E res \in Resources(b) :
            /\ current \in write_map(b, res)
            /\ next \in write_map(b, res) \cup read_map(b, res)}

\* "every WRITE locks every WRITE and every READ": who is added to next's locks
WritePass(b, next) ==
    {current \in Ids(b) : current # next /\
        \E res \in Resources(b) :
            /\ current \in write_map(b, res)
            /\ next \in write_map(b, res) \cup read_map(b, res)}

\* a read pass in which a reader also locks the other readers
ReadPass_all(b, next) ==
    {current \in Ids(b) : current # next /\
        \E res \in Resources(b) :
            /\ current \in read_map(b, res)
            /\ next \in write_map(b, res) \cup read_map(b, res)}

\* "every READ locks every WRITE"
ReadPass(b, next) ==
    {current \in Ids(b) : current # next /\
        \E res \in Resources(b) :
            /\ current \in read_map(b, res)
            /\ next \in write_map(b, res)}

resource_locks(b, id) == WritePass(b, id) \cup ReadPass(b, id)

\* occurrences of p in a dependency list
RECURSIVE Occurrences(_, _)
Occurrences(deps, p) ==
    IF deps = <<>> THEN 0
    ELSE (IF Head(deps) = p THEN 1 ELSE 0) + Occurrences(Tail(deps), p)

RECURSIVE Repeat(_, _)
Repeat(x, n) == IF n = 0 THEN <<>> ELSE <<x>> \o Repeat(x, n - 1)

\* Task.dependants of p after the first loop of build(): add_dependant(id)
\* for every occurrence of p in the dependencies of id, ids ascending
RECURSIVE DependantsFrom(_, _, _)
DependantsFrom(b, p, id) ==
    IF id >= Len(b) THEN <<>>
    ELSE Repeat(id, Occurrences(TB(b, id).dependencies, p))
            \o DependantsFrom(b, p, id + 1)
dependants(b, p) == DependantsFrom(b, p, 0)

\* an initial count that leaves the explicit predecessors out
initial_none(b, id) == 0
\* an initial count that also holds one for every conflicting peer
initial_locks(b, id) ==
    Len(TB(b, id).dependencies) + Cardinality(resource_locks(b, id))
\* Task::new(task.task, task.dependencies.len())
initial(b, id) == Len(TB(b, id).dependencies)

\* the sequences that enumerate the set S once each (HashSet iteration orders)
Orders(S) ==
    {s \in [1 .. Cardinality(S) -> S] : \A i, j \in 1 .. Cardinality(S) :
                                            i # j => s[i] # s[j]}

\* a build that does not extend unlock with the resource locks
Compiled_nolocks(b, id, order) ==
    [id |-> id, lock |-> order, unlock |-> dependants(b, id), initial |-> initial(b, id)]
\* a build that puts the resource locks in front of the dependants
Compiled_locksfirst(b, id, order) ==
    [id |-> id, lock |-> order, unlock |-> order \o dependants(b, id),
     initial |-> initial(b, id)]
\* Task::build: lock is resource_locks in iteration order, unlock is dependants
\* followed by resource_locks in the same order
Compiled(b, id, order) ==
    [id |-> id, lock |-> order, unlock |-> dependants(b, id) \o order,
     initial |-> initial(b, id)]

\* the first k compiled tasks (t.build(TaskId::new(id)) over the enumerated
\* Vec), for every iteration order of the lock sets
RECURSIVE BuildsUpTo(_, _)
BuildsUpTo(b, k) ==
    IF k = 0 THEN {<<>>}
    ELSE {Append(p, Compiled(b, k - 1, o)) :
            p \in BuildsUpTo(b, k - 1), o \in Orders(resource_locks(b, k - 1))}

\* every executor build() can return for the declared tasks b, as TaskId -> Task
Builds(b) == {[id \in Ids(b) |-> p[id + 1]] : p \in BuildsUpTo(b, Len(b))}

----------------------------------------------------------------------------
(* The declared graphs the runs are checked on *)

Decl(r, w, d) == [reads |-> r, writes |-> w, dependencies |-> d]

Single == <<Decl({}, {}, <<>>)>>

Chain == [i \in 1 .. ChainLen |-> Decl({}, {}, IF i = 1 THEN <<>> ELSE <<i - 2>>)]

FanOutGraph ==
    [i \in 1 .. (FanOut + 1) |-> IF i = 1 THEN Decl({}, {0}, <<>>)
                                         ELSE Decl({0}, {}, <<0>>)]

Contention == [i \in 1 .. Writers |-> Decl({}, {0}, <<>>)]

\* the write-contention scenario: every task writes resource 0, no dependencies
WriteContention == [i \in 1 .. Contenders |-> Decl({}, {0}, <<>>)]

\* a root, a dependant of it, and a second root that conflicts with the dependant
Cross == <<Decl({}, {}, <<>>), Decl({}, {0}, <<0>>), Decl({0}, {}, <<>>)>>

\* a writer and a reader of the same resource, the reader also a dependant
DepConflict == <<Decl({}, {0}, <<>>), Decl({0}, {}, <<0>>)>>

\* a task that reads and writes the same resource, and a reader of it
SelfConflict == <<Decl({0}, {0}, <<>>), Decl({0}, {}, <<>>)>>

\* a task that names the same predecessor twice
Repeated == <<Decl({}, {}, <<>>), Decl({}, {}, <<0, 0>>)>>

\* the_ultimate_test, its tasks a, b, c, d (the later tasks e..h conflict with
\* none of these; they add f/g, one more conflicting pair, behind them)
Ultimate ==
    << Decl({1}, {0}, <<>>),
       Decl({0}, {1}, <<>>),
       Decl({1}, {2}, <<0, 1>>),
       Decl({0, 2}, {3}, <<0>>) >>

Graphs ==
    {Single, Chain, FanOutGraph, Contention, Cross, DepConflict, SelfConflict, Repeated,
     Ultimate}

----------------------------------------------------------------------------
(* interlock/context.rs *)

N == Len(builderTasks)
TaskIds == 0 .. (N - 1)
\* the iterator of take_unlocked() is numbered N, the iterator unlock(&t) is t
Seed == N
Iters == 0 .. N

\* the items an iterator walks: every task, or t's unlockable_deps()
Items(s) == IF s = Seed THEN [i \in 1 .. N |-> i - 1] ELSE tasks[s].unlock

IterOff == [st |-> "off", pos |-> 0, cur |-> 0, lpos |-> 0]
IterAt(s, p) ==
    [st |-> IF p > Len(Items(s)) THEN "end" ELSE "next", pos |-> p, cur |-> 0, lpos |-> 0]

\* the workers of a run are at work. A panic! unwinds the run_iterator call
\* that raised it; rayon's join lets the other closure finish before it resumes
\* the unwinding, so the other workers go on until Context::run itself unwinds
Running == stage = "drive"

\* Executable::run of the executor is called: Context::new starts
RunBegin ==
    /\ stage = "built" /\ panicked = "none" /\ runs < MaxRuns
    /\ stage' = "init"
    /\ rpos' = 0
    /\ iter' = [s \in Iters |-> IterOff]
    /\ head' = [t \in TaskIds |-> "none"]
    /\ parent' = [t \in TaskIds |-> 0]
    /\ execs' = [t \in TaskIds |-> 0]
    /\ UNCHANGED <<cellVars, builderTasks, added, tasks, borrow, runs, panicked>>

\* Context::new: task.init() of the next task; after the last one, run()
\* creates the take_unlocked() iterator
InitTask ==
    /\ stage = "init" /\ panicked = "none"
    /\ IF reset_ok(borrow[rpos])
         THEN /\ borrow' = [borrow EXCEPT ![rpos] = tasks[rpos].initial]
              /\ rpos' = rpos + 1
              /\ IF rpos + 1 = N
                   THEN /\ stage' = "drive"
                        /\ iter' = [iter EXCEPT ![Seed] = IterAt(Seed, 1)]
                   ELSE UNCHANGED <<stage, iter>>
              /\ UNCHANGED panicked
         ELSE /\ panicked' = "reset"
              /\ UNCHANGED <<borrow, rpos, stage, iter>>
    /\ UNCHANGED <<cellVars, builderTasks, added, tasks, runs, head, parent, execs>>

\* run_iterator got Some(c) from iterator s: the lock phase follows, and with
\* nothing to lock the join forks the head closure at once
Taken(s, c) ==
    /\ parent' = [parent EXCEPT ![c] = s]
    /\ IF tasks[c].lock = <<>>
         THEN /\ head' = [head EXCEPT ![c] = "ready"]
              /\ iter' = [iter EXCEPT ![s] = IterAt(s, iter[s].pos + 1)]
         ELSE /\ head' = [head EXCEPT ![c] = "held"]
              /\ iter' = [iter EXCEPT ![s] = [st |-> "lock", pos |-> iter[s].pos,
                                              cur |-> c, lpos |-> 1]]

\* take_unlocked().next(): task.take() on the next task of the array
SeedNext ==
    /\ Running /\ iter[Seed].st = "next"
    /\ LET c == Items(Seed)[iter[Seed].pos] IN
         IF take_ok(borrow[c])
           THEN /\ borrow' = [borrow EXCEPT ![c] = LOCK_BIT]
                /\ Taken(Seed, c)
           ELSE /\ iter' = [iter EXCEPT ![Seed] = IterAt(Seed, iter[Seed].pos + 1)]
                /\ UNCHANGED <<borrow, head, parent>>
    /\ UNCHANGED <<cellVars, builderTasks, added, tasks, stage, rpos, runs, execs, panicked>>

\* unlock(&t).next(), the filter: tasks[id].unlock() on the next unlockable dep
\* with the counter at 0 the fetch_sub wraps the word, and a second step makes
\* the fetch_add that precedes panic!("... lock underflow"); the panic unwinds
\* run_iterator(unlock(&t)), which holds no handle at that point
UnlockNext(t) ==
    /\ Running /\ iter[t].st \in {"next", "unlock_undo"}
    /\ IF iter[t].st = "unlock_undo"
         THEN /\ borrow' = [borrow EXCEPT ![iter[t].cur] = fetch_add(borrow[iter[t].cur])]
              /\ panicked' = "underflow"
              /\ iter' = [iter EXCEPT ![t].st = "panic"]
         ELSE LET c == Items(t)[iter[t].pos] IN
                /\ borrow' = [borrow EXCEPT ![c] = fetch_sub(borrow[c])]
                /\ UNCHANGED panicked
                /\ IF unlock_panics(borrow[c])
                     THEN iter' = [iter EXCEPT ![t] = [st |-> "unlock_undo", pos |-> iter[t].pos,
                                                       cur |-> c, lpos |-> 0]]
                     ELSE IF unlock_result(borrow[c])
                            THEN iter' = [iter EXCEPT ![t] = [st |-> "take", pos |-> iter[t].pos,
                                                              cur |-> c, lpos |-> 0]]
                            ELSE iter' = [iter EXCEPT ![t] = IterAt(t, iter[t].pos + 1)]
    /\ UNCHANGED <<cellVars, builderTasks, added, tasks, stage, rpos, runs, head, parent, execs>>

\* unlock(&t).next(), the map: tasks[id].take() after unlock() returned true
UnlockTake(t) ==
    /\ Running /\ iter[t].st = "take"
    /\ LET c == iter[t].cur IN
         IF take_ok(borrow[c])
           THEN /\ borrow' = [borrow EXCEPT ![c] = LOCK_BIT]
                /\ Taken(t, c)
           ELSE /\ iter' = [iter EXCEPT ![t] = IterAt(t, iter[t].pos + 1)]
                /\ UNCHANGED <<borrow, head, parent>>
    /\ UNCHANGED <<cellVars, builderTasks, added, tasks, stage, rpos, runs, execs, panicked>>

\* Context::lock: self.tasks[task.id()].lock() for the next lockable dep of the
\* task just taken; after the last one the join forks the head closure
\* When new == COMP_BIT a second step makes the fetch_sub that precedes
\* panic!("... too many locks"), and a third is the unwinding of run_iterator,
\* which drops the TaskRef just taken (Drop for CountRef) and the iterator. On
\* the all-ones word `fetch_add(1) + 1` itself overflows: a build with overflow
\* checks panics there, without a fetch_sub, one without wraps to 0. An
\* iterator keeps pos, cur and lpos when it unwinds: lpos - 1 lock() calls of
\* the lock phase stay made
LockStep(s) ==
    /\ Running /\ iter[s].st \in {"lock", "lock_undo", "lock_unwind"}
    /\ LET c == iter[s].cur
           p == tasks[c].lock[iter[s].lpos] IN
         CASE iter[s].st = "lock" ->
                /\ borrow' = [borrow EXCEPT ![p] = fetch_add(borrow[p])]
                /\ \E add \in IF borrow[p] = WordMod - 1 THEN {"wraps", "panics"}
                                                          ELSE {"wraps"} :
                      IF add = "panics"
                        THEN /\ panicked' = "arithmetic"
                             /\ iter' = [iter EXCEPT ![s].st = "lock_unwind",
                                                      ![s].lpos = iter[s].lpos + 1]
                             /\ UNCHANGED head
                        ELSE /\ UNCHANGED panicked
                             /\ IF lock_panics(borrow[p])
                                  THEN /\ iter' = [iter EXCEPT ![s].st = "lock_undo"]
                                       /\ UNCHANGED head
                                  ELSE IF iter[s].lpos = Len(tasks[c].lock)
                                         THEN /\ head' = [head EXCEPT ![c] = "ready"]
                                              /\ iter' = [iter EXCEPT
                                                            ![s] = IterAt(s, iter[s].pos + 1)]
                                         ELSE /\ iter' = [iter EXCEPT
                                                            ![s].lpos = iter[s].lpos + 1]
                                              /\ UNCHANGED head
           [] iter[s].st = "lock_undo" ->
                /\ borrow' = [borrow EXCEPT ![p] = fetch_sub(borrow[p])]
                /\ panicked' = "overflow"
                /\ iter' = [iter EXCEPT ![s].st = "lock_unwind"]
                /\ UNCHANGED head
           [] iter[s].st = "lock_unwind" ->
                /\ borrow' = [borrow EXCEPT ![c] = drop(borrow[c])]
                /\ head' = [head EXCEPT ![c] = "dropped"]
                /\ iter' = [iter EXCEPT ![s].st = "panic"]
                /\ UNCHANGED panicked
    /\ UNCHANGED <<cellVars, builderTasks, added, tasks, stage, rpos, runs, parent, execs>>

\* Context::execute: the closure of t is entered
ExecBegin(t) ==
    /\ Running /\ head[t] = "ready"
    /\ head' = [head EXCEPT ![t] = "exec"]
    /\ execs' = [execs EXCEPT ![t] = execs[t] + 1]
    /\ UNCHANGED <<cellVars, builderTasks, added, tasks, borrow, stage, rpos, runs, iter, parent, panicked>>

\* the closure of t returns; the head closure goes on to run_iterator(unlock(&t))
ExecEnd(t) ==
    /\ Running /\ head[t] = "exec"
    /\ head' = [head EXCEPT ![t] = "iter"]
    /\ iter' = [iter EXCEPT ![t] = IterAt(t, 1)]
    /\ UNCHANGED <<cellVars, builderTasks, added, tasks, borrow, stage, rpos, runs, parent, execs, panicked>>

\* a run_iterator that returns when its iterator is exhausted, without the join
Joined_early(s) == iter[s].st \in {"end", "panic"}
\* every head closure forked by run_iterator over iterator s has returned or
\* unwound, and the iterator is exhausted or dropped by a panic
Joined(s) == iter[s].st \in {"end", "panic"}
             /\ \A c \in TaskIds : head[c] # "none" /\ parent[c] = s
                                       => head[c] \in {"done", "unwound", "dropped"}

\* run_iterator over iterator s unwinds: the panic was raised in it, or a join
\* in it resumes the panic of a head closure. A handle released by unwinding
\* leaves its task "dropped" (its closure was never entered) or "unwound" (the
\* closure had returned)
Unwinds(s) ==
    \/ iter[s].st = "panic"
    \/ \E c \in TaskIds : head[c] = "unwound" /\ parent[c] = s

\* the head closure of t ends: run_iterator(unlock(&t)) has returned, or it
\* unwinds through the closure, and the TaskRef is dropped (Drop for CountRef)
Release(t) ==
    /\ Running /\ head[t] = "iter" /\ Joined(t)
    /\ borrow' = [borrow EXCEPT ![t] = drop(borrow[t])]
    /\ head' = [head EXCEPT ![t] = IF Unwinds(t) THEN "unwound" ELSE "done"]
    /\ UNCHANGED <<cellVars, builderTasks, added, tasks, stage, rpos, runs, iter, parent, execs, panicked>>

\* Context::run returns: the outermost run_iterator has joined; when it
\* unwinds, run() panics and the executor is left as it is
RunReturn ==
    /\ Running /\ Joined(Seed)
    /\ IF Unwinds(Seed)
         THEN stage' = "panicked" /\ UNCHANGED runs
         ELSE stage' = "built" /\ runs' = runs + 1
    /\ UNCHANGED <<cellVars, builderTasks, added, tasks, borrow, rpos, iter, head, parent, execs, panicked>>

\* the steps of the workers of one run
Drive ==
    \/ InitTask
    \/ SeedNext
    \/ \E t \in TaskIds : UnlockNext(t)
    \/ \E t \in TaskIds : UnlockTake(t)
    \/ \E s \in Iters : LockStep(s)
    \/ \E t \in TaskIds : ExecBegin(t)
    \/ \E t \in TaskIds : ExecEnd(t)
    \/ \E t \in TaskIds : Release(t)
    \/ RunReturn

\* a CountCell nobody has called yet: CountCell::new leaves the word at COMP_BIT
CellNew ==
    /\ cell = COMP_BIT
    /\ wk = [w \in 1 .. NumWorkers |-> [pc |-> "idle", old |-> 0, alone |-> TRUE, holds |-> 0]]
    /\ last = [op |-> "new", arg |-> 0, old |-> COMP_BIT, new |-> COMP_BIT,
               res |-> "ok", alone |-> TRUE]
    /\ takes = 0
    /\ ncalls = 0

\* InterlockBuilder::build on one of the declared graphs; CountCell::new leaves
\* every word at COMP_BIT
InitOf(G) ==
    /\ builderTasks \in G
    /\ added = AddedIds(builderTasks)
    /\ tasks \in Builds(builderTasks)
    /\ borrow = [t \in Ids(builderTasks) |-> COMP_BIT]
    /\ stage = "built"
    /\ rpos = 0
    /\ runs = 0
    /\ iter = [s \in 0 .. Len(builderTasks) |-> [st |-> "off", pos |-> 0, cur |-> 0, lpos |-> 0]]
    /\ head = [t \in Ids(builderTasks) |-> "none"]
    /\ parent = [t \in Ids(builderTasks) |-> 0]
    /\ execs = [t \in Ids(builderTasks) |-> 0]
    /\ panicked = "none"

Init == InitOf(Graphs) /\ CellNew

Next == RunBegin \/ Drive

Spec == Init /\ [][Next]_vars

\* every step of a run is eventually taken while it stays possible: rayon's
\* workers keep running the closures handed to join
FairSpec == Spec /\ WF_vars(Drive)

----------------------------------------------------------------------------
(* interlock/builder.rs: a builder followed call by call *)

\* the declarations an add call is given on a builder holding b: resource 0
\* read, written or neither, and at most one earlier task as predecessor
Decls(b) ==
    {Decl(r, w, d) : r \in SUBSET {0}, w \in SUBSET {0},
                     d \in {<<>>} \cup {<<p>> : p \in Ids(b)}}

\* builder(): InterlockBuilder::new, no task declared
BuilderNew ==
    /\ builderTasks = <<>>
    /\ added = <<>>
    /\ tasks = <<>>
    /\ borrow = <<>>
    /\ stage = "declare"
    /\ rpos = 0
    /\ runs = 0
    /\ iter = [s \in 0 .. 0 |-> IterOff]
    /\ head = <<>>
    /\ parent = <<>>
    /\ execs = <<>>
    /\ panicked = "none"

\* InterlockBuilder::add / add_box
Add(d) ==
    /\ stage = "declare" /\ Len(builderTasks) < MaxTasks
    /\ builderTasks' = Append(builderTasks, d)
    /\ added' = Append(added, add_box_id(builderTasks))
    /\ UNCHANGED <<cellVars, tasks, borrow, stage, rpos, runs, iter, head, parent,
                   execs, panicked>>

\* InterlockBuilder::build
Build ==
    /\ stage = "declare"
    /\ tasks' \in Builds(builderTasks)
    /\ borrow' = [t \in TaskIds |-> COMP_BIT]
    /\ stage' = "built"
    /\ iter' = [s \in Iters |-> IterOff]
    /\ head' = [t \in TaskIds |-> "none"]
    /\ parent' = [t \in TaskIds |-> 0]
    /\ execs' = [t \in TaskIds |-> 0]
    /\ UNCHANGED <<cellVars, builderTasks, added, rpos, runs, panicked>>

BuildNext == (\E d \in Decls(builderTasks) : Add(d)) \/ Build

BuildInit == BuilderNew /\ CellNew

BuildSpec == BuildInit /\ [][BuildNext]_vars

----------------------------------------------------------------------------
\* the runs of the executor built for the write-contention scenario
ContentionInit == InitOf({WriteContention}) /\ CellNew
ContentionSpec == ContentionInit /\ [][Next]_vars

----------------------------------------------------------------------------
(* Properties of a run *)

\* the closure of t is executing
Executing(t) == head[t] = "exec"
\* the closure of t has been entered in this run
Started(t) == head[t] \in {"exec", "iter", "done", "unwound"}
\* the closure of t has returned in this run
Returned(t) == head[t] \in {"iter", "done", "unwound"}
\* a run() call has returned and no other has begun
RunReturned == stage = "built" /\ runs >= 1

\* the explicit predecessors b declares
Predecessors(b) ==
    {TB(builderTasks, b).dependencies[i] :
        i \in 1 .. Len(TB(builderTasks, b).dependencies)}
\* a writes a resource that b writes or reads
WritesShared(a, b) ==
    TB(builderTasks, a).writes
        \cap (TB(builderTasks, b).writes \cup TB(builderTasks, b).reads) # {}

\* C1: no closure is invoked a second time within a run, and when run returns
\* every closure has been invoked exactly once in that run
ExactlyOnce ==
    /\ \A t \in TaskIds : execs[t] <= 1
    /\ RunReturned => \A t \in TaskIds : execs[t] = 1 /\ Returned(t)

ExactlyOnceWitness ==
    /\ RunReturned /\ N >= 3
    /\ \A t \in TaskIds : execs[t] = 1

\* C2: whenever the closure of b has begun, the closure of each explicit
\* predecessor of b has returned, also when the predecessor conflicts with b
PredecessorFirst ==
    \A b \in TaskIds : Started(b) => \A a \in Predecessors(b) : Returned(a)

PredecessorFirstWitness ==
    \E b \in TaskIds : \E a \in Predecessors(b) :
        /\ Executing(b)
        /\ WritesShared(a, b)
        /\ \E i \in 1 .. Len(tasks[a].lock) : tasks[a].lock[i] = b

\* C3: the closures of a task that writes a resource and of another task that
\* writes or reads it never execute at the same time
MutualExclusion ==
    \A a, b \in TaskIds :
        a # b /\ WritesShared(a, b) => ~(Executing(a) /\ Executing(b))

\* C4: under fair scheduling every run that begins returns, and has then
\* executed every task
RunTerminates ==
    /\ (stage = "init") ~> (stage = "built")
    /\ [](RunReturned => \A t \in TaskIds : head[t] = "done" /\ execs[t] >= 1)

RunTerminatesWitness ==
    /\ RunReturned
    /\ \E t \in TaskIds : tasks[t].lock # <<>>
    /\ \A t \in TaskIds : head[t] = "done"

\* C5: when run returns every word is exactly COMP_BIT, every reset of the
\* next Context::new succeeds, and the next run again executes every closure
\* exactly once
Rerunnable ==
    /\ panicked # "reset"
    /\ stage = "built" => \A t \in TaskIds : borrow[t] = COMP_BIT
    /\ stage = "init" => \A t \in TaskIds : t >= rpos => borrow[t] = COMP_BIT
    /\ stage = "built" /\ runs > 1 => \A t \in TaskIds : execs[t] = 1

RerunnableWitness ==
    /\ stage = "built" /\ runs = 2
    /\ \E t \in TaskIds : tasks[t].lock # <<>>

----------------------------------------------------------------------------
(* interlock/cell.rs: one CountCell called directly by worker threads, as the
   tests of cell.rs do, each atomic operation on the word being one step *)

Workers == 1 .. NumWorkers

\* the values the callers reset the cell to
ResetValues == (0 .. MaxInit) \cup {CNT_MASK}

Idle(w) == wk[w].pc = "idle"
CanCall(w) == Idle(w) /\ ncalls < MaxCalls

CallRecord(op, arg, old, new, res, alone) ==
    [op |-> op, arg |-> arg, old |-> old, new |-> new, res |-> res, alone |-> alone]

\* the word changes under the workers that are between the two atomic
\* operations of a panicking lock() or unlock()
Others(w) ==
    [v \in Workers |-> IF v # w /\ wk[v].pc # "idle"
                         THEN [wk[v] EXCEPT !.alone = FALSE] ELSE wk[v]]

\* CountCell::reset(k)
CellReset(w, k) ==
    /\ CanCall(w)
    /\ IF reset_ok(cell)
         THEN /\ cell' = k
              /\ takes' = 0
              /\ last' = CallRecord("reset", k, cell, k, "ok", TRUE)
              /\ wk' = Others(w)
         ELSE /\ last' = CallRecord("reset", k, cell, cell, "panic", TRUE)
              /\ UNCHANGED <<cell, takes, wk>>
    /\ ncalls' = ncalls + 1
    /\ UNCHANGED execVars

\* CountCell::lock: the fetch_add; new == COMP_BIT leaves the caller before its
\* fetch_sub. On the all-ones word `fetch_add(1) + 1` itself overflows: a build
\* with overflow checks panics there, one without wraps to 0
CellLock(w) ==
    /\ CanCall(w)
    /\ cell' = fetch_add(cell)
    /\ ncalls' = ncalls + 1
    /\ IF lock_panics(cell)
         THEN /\ wk' = [Others(w) EXCEPT ![w].pc = "lock_undo", ![w].old = cell,
                                         ![w].alone = TRUE]
              /\ UNCHANGED last
         ELSE /\ wk' = Others(w)
              /\ \E res \in IF cell = WordMod - 1 THEN {"ok", "panic"} ELSE {"ok"} :
                    last' = CallRecord("lock", 0, cell, fetch_add(cell), res, TRUE)
    /\ UNCHANGED <<takes, execVars>>

\* CountCell::lock: the fetch_sub before panic!("... too many locks")
CellLockUndo(w) ==
    /\ wk[w].pc = "lock_undo"
    /\ cell' = fetch_sub(cell)
    /\ last' = CallRecord("lock", 0, wk[w].old, fetch_sub(cell), "panic", wk[w].alone)
    /\ wk' = [Others(w) EXCEPT ![w].pc = "idle"]
    /\ UNCHANGED <<takes, ncalls, execVars>>

\* CountCell::unlock: the fetch_sub; old & CNT_MASK == 0 leaves the caller
\* before its fetch_add
CellUnlock(w) ==
    /\ CanCall(w)
    /\ cell' = fetch_sub(cell)
    /\ ncalls' = ncalls + 1
    /\ IF unlock_panics(cell)
         THEN /\ wk' = [Others(w) EXCEPT ![w].pc = "unlock_undo", ![w].old = cell,
                                         ![w].alone = TRUE]
              /\ UNCHANGED last
         ELSE /\ wk' = Others(w)
              /\ last' = CallRecord("unlock", 0, cell, fetch_sub(cell),
                                   IF unlock_result(cell) THEN "true" ELSE "false", TRUE)
    /\ UNCHANGED <<takes, execVars>>

\* CountCell::unlock: the fetch_add before panic!("... lock underflow")
CellUnlockUndo(w) ==
    /\ wk[w].pc = "unlock_undo"
    /\ cell' = fetch_add(cell)
    /\ last' = CallRecord("unlock", 0, wk[w].old, fetch_add(cell), "panic", wk[w].alone)
    /\ wk' = [Others(w) EXCEPT ![w].pc = "idle"]
    /\ UNCHANGED <<takes, ncalls, execVars>>

\* CountCell::take
CellTake(w) ==
    /\ CanCall(w)
    /\ ncalls' = ncalls + 1
    /\ IF take_ok(cell)
         THEN /\ cell' = LOCK_BIT
              /\ takes' = takes + 1
              /\ wk' = [Others(w) EXCEPT ![w].holds = wk[w].holds + 1]
              /\ last' = CallRecord("take", 0, cell, LOCK_BIT, "some", TRUE)
         ELSE /\ last' = CallRecord("take", 0, cell, cell, "none", TRUE)
              /\ UNCHANGED <<cell, takes, wk>>
    /\ UNCHANGED execVars

\* Drop for CountRef: a worker lets go of a handle it got from take()
CellDrop(w) ==
    /\ Idle(w) /\ wk[w].holds > 0
    /\ cell' = drop(cell)
    /\ wk' = [Others(w) EXCEPT ![w].holds = wk[w].holds - 1]
    /\ last' = CallRecord("drop", 0, cell, drop(cell), "ok", TRUE)
    /\ UNCHANGED <<takes, ncalls, execVars>>

CellNext ==
    \/ \E w \in Workers, k \in ResetValues : CellReset(w, k)
    \/ \E w \in Workers : CellLock(w)
    \/ \E w \in Workers : CellLockUndo(w)
    \/ \E w \in Workers : CellUnlock(w)
    \/ \E w \in Workers : CellUnlockUndo(w)
    \/ \E w \in Workers : CellTake(w)
    \/ \E w \in Workers : CellDrop(w)

CellInit == InitOf({Single}) /\ CellNew

CellSpec == CellInit /\ [][CellNext]_vars

\* a CountCell whose counter lock() calls have raised to its last two values:
\* after reset(0) and k lock() calls (Counting), with a take() before the
\* lock() calls (Running), and with the handle released after them
\* (Completed); ncalls counts the calls made from here on
FullCellInit ==
    /\ InitOf({Single})
    /\ \E b \in {0, 1, 2}, k \in {CNT_MASK - 1, CNT_MASK} :
          /\ cell = b * COMP_BIT + k
          /\ wk = [w \in 1 .. NumWorkers |->
                     [pc |-> "idle", old |-> 0, alone |-> TRUE,
                      holds |-> IF w = 1 /\ b = 2 THEN 1 ELSE 0]]
          /\ takes = (IF b = 0 THEN 0 ELSE 1)
          /\ last = IF b = 1
                      THEN CallRecord("drop", 0, LOCK_BIT + k, COMP_BIT + k, "ok", TRUE)
                      ELSE CallRecord("lock", 0, b * COMP_BIT + k - 1, b * COMP_BIT + k,
                                      "ok", TRUE)
    /\ ncalls = 0

FullCellSpec == FullCellInit /\ [][CellNext]_vars

----------------------------------------------------------------------------
(* Properties of a CountCell *)

\* the configurations of a word
Counting(w, k) == Bits(w) = 0 /\ Cnt(w) = k
IsRunning(w) == Bits(w) = 2
IsCompleted(w) == Bits(w) = 1
\* handles to the payload that exist
RECURSIVE HeldUpTo(_)
HeldUpTo(n) == IF n = 0 THEN 0 ELSE wk[n].holds + HeldUpTo(n - 1)
Handles == HeldUpTo(NumWorkers)

\* C6: between two successful resets at most one take() succeeds, whatever
\* lock(), unlock(), take() and handle releases the workers interleave, so at
\* most one handle exists
SingleOwner == takes <= 1 /\ Handles <= 1

\* C7: take() returns a handle exactly when the word is Counting(0), and then
\* leaves it Running; otherwise it returns none and leaves the word as it was
TakeContract ==
    last.op = "take" =>
        IF Counting(last.old, 0)
          THEN last.res = "some" /\ IsRunning(last.new) /\ Cnt(last.new) = 0
          ELSE last.res = "none" /\ last.new = last.old

TakeContractWitness ==
    last.op = "take" /\ last.res = "none" /\ Counting(last.old, 1)

\* C8: reset(k) succeeds exactly when the word is Completed with CNT = 0, and
\* then leaves it Counting(k); otherwise it panics and leaves the word as it
\* was; the first reset of a new cell succeeds
ResetContract ==
    /\ last.op = "reset" =>
        IF IsCompleted(last.old) /\ Cnt(last.old) = 0
          THEN last.res = "ok" /\ Counting(last.new, last.arg)
          ELSE last.res = "panic" /\ last.new = last.old
    /\ last.op = "reset" /\ ncalls = 1 => last.res = "ok"

ResetContractWitness ==
    last.op = "reset" /\ last.res = "panic" /\ IsCompleted(last.old) /\ Cnt(last.old) > 0

\* C9: unlock() on a word with CNT = 0 panics, and with no other call in
\* between leaves the word as it was before the call
UnlockUnderflow ==
    last.op = "unlock" /\ Cnt(last.old) = 0 =>
        last.res = "panic" /\ (last.alone => last.new = last.old)

UnlockUnderflowWitness ==
    last.op = "unlock" /\ last.res = "panic" /\ last.alone /\ IsRunning(last.old)

\* C10: unlock() on a word with CNT >= 1 takes one off CNT, keeps both state
\* bits, and returns true exactly when the word it leaves is Counting(0)
UnlockContract ==
    last.op = "unlock" /\ Cnt(last.old) >= 1 =>
        /\ last.res \in {"true", "false"}
        /\ Cnt(last.new) = Cnt(last.old) - 1
        /\ Bits(last.new) = Bits(last.old)
        /\ last.res = "true" <=> Counting(last.new, 0)

UnlockContractWitness ==
    last.op = "unlock" /\ last.res = "false" /\ Cnt(last.new) = 0 /\ IsRunning(last.new)

----------------------------------------------------------------------------
(* Further properties of a run *)

\* the members of a sequence
Range(f) == {f[i] : i \in 1 .. Len(f)}
\* a and b conflict on a resource: one writes what the other writes or reads
Conflict(a, b) == WritesShared(a, b) \/ WritesShared(b, a)
\* b lists a as an explicit predecessor, or a lists b
Related(a, b) == a \in Predecessors(b) \/ b \in Predecessors(a)
\* a and b read a common resource
ReadShared(a, b) == TB(builderTasks, a).reads \cap TB(builderTasks, b).reads # {}

\* C11: no reset(), lock() or unlock() the executor makes panics, in any run on
\* any of the graphs: no double reset, no counter underflow, no counter overflow
NoPanic == panicked = "none"

\* a second run in which lock() has acted on a cell that is not Counting
NoPanicWitness ==
    /\ runs = 1 /\ stage = "drive"
    /\ \E t \in TaskIds : Bits(borrow[t]) # 0 /\ Cnt(borrow[t]) >= 1

\* C12: two tasks that read a common resource and have no conflict and no
\* explicit dependency between them never touch each other's counter (neither
\* is in the other's lock or unlock list), so their closures may execute at the
\* same time
ReadersIndependent ==
    \A a, b \in TaskIds :
        a # b /\ ReadShared(a, b) /\ ~Conflict(a, b) /\ ~Related(a, b) =>
            b \notin Range(tasks[a].lock) \cup Range(tasks[a].unlock)

\* two readers of the fan-out graph execute at the same time, after the root
ReadersIndependentWitness ==
    /\ builderTasks = FanOutGraph
    /\ \E a, b \in TaskIds :
            /\ a # b /\ ReadShared(a, b) /\ ~Conflict(a, b) /\ ~Related(a, b)
            /\ Executing(a) /\ Executing(b)
            /\ Returned(0)

\* C13: in the write-contention scenario no two closures execute at the same
\* time, no closure is invoked twice, and when run returns every closure has
\* been invoked once
ContentionSerial ==
    /\ \A a, b \in TaskIds : a # b => ~(Executing(a) /\ Executing(b))
    /\ \A t \in TaskIds : execs[t] <= 1
    /\ RunReturned => \A t \in TaskIds : execs[t] = 1

\* C14: in the pure chain the closures execute one after the other in
\* declaration order: the closure of task i begins only after the closure of
\* task i - 1 has returned, and at most one closure is executing
ChainSequential ==
    builderTasks = Chain =>
        /\ \A i \in TaskIds : i >= 1 /\ Started(i) => Returned(i - 1)
        /\ \A a, b \in TaskIds : a # b => ~(Executing(a) /\ Executing(b))

\* the last task of the chain executes, a task of the chain having been taken
\* by the seed iterator after its predecessor unlocked it
ChainSequentialWitness ==
    /\ builderTasks = Chain
    /\ Executing(ChainLen - 1)
    /\ \E t \in TaskIds : t >= 1 /\ head[t] # "none" /\ parent[t] = Seed

\* C15: the k-th add call (0-based) returns TaskId k, no two calls return the
\* same id, and after build() the task stored at index i of the executor's
\* array has id i, the ids being exactly 0 .. N - 1
DenseIds ==
    /\ Len(added) = Len(builderTasks)
    /\ \A k \in 1 .. Len(added) : added[k] = k - 1
    /\ \A j, k \in 1 .. Len(added) : j # k => added[j] # added[k]
    /\ stage = "built" =>
          /\ DOMAIN tasks = 0 .. (Len(added) - 1)
          /\ \A i \in DOMAIN tasks : tasks[i].id = i
          /\ {tasks[i].id : i \in DOMAIN tasks} = Range(added)

\* MaxTasks tasks were added, the last one naming the id returned just before
\* it as its predecessor, and the executor was built
DenseIdsWitness ==
    /\ stage = "built" /\ Len(added) = MaxTasks
    /\ TB(builderTasks, MaxTasks - 1).dependencies = <<added[MaxTasks - 1]>>
    /\ tasks[MaxTasks - 2].unlock # <<>>

\* the last place of p in the sequence f, 0 when p is not in it
LastIndex(f, p) ==
    IF p \in Range(f) THEN CHOOSE i \in 1 .. Len(f) :
                              f[i] = p /\ \A j \in (i + 1) .. Len(f) : f[j] # p
    ELSE 0

\* the entries of the unlock list of a on which its unlock iterator has
\* called unlock() in this run: the iterator is before the entry at pos when
\* it is about to call next() or is exhausted, and past it otherwise, also
\* when the call panicked or the iterator unwound later
UnlocksMade(a) ==
    IF head[a] \notin {"iter", "done", "unwound"} THEN 0
    ELSE IF iter[a].st \in {"next", "end"} THEN iter[a].pos - 1
    ELSE iter[a].pos

\* t has finished its lock phase and its unlock iterator has not made the
\* unlock() on p that matches it (the one in the part of unlock that repeats
\* the lock set, which comes last); an iterator that unwound never makes it
Holding(t, p) ==
    \/ head[t] \in {"ready", "exec"}
    \/ /\ head[t] \in {"iter", "done", "unwound"}
       /\ UnlocksMade(t) < LastIndex(tasks[t].unlock, p)

\* C16: from the end of the lock phase of a taken task t until t's matching
\* unlock() on a peer p of its lock set, CNT of p is at least 1, p is not
\* Counting(0) and a take() on p fails; and the closure of t is executing only
\* when the whole lock phase of t has finished
LockedOut ==
    /\ \A t \in TaskIds : \A p \in Range(tasks[t].lock) :
            Holding(t, p) =>
                /\ Cnt(borrow[p]) >= 1
                /\ ~Counting(borrow[p], 0)
                /\ ~take_ok(borrow[p])
    /\ \A t \in TaskIds :
            Started(t) => \A s \in Iters : ~(iter[s].st = "lock" /\ iter[s].cur = t)

\* t executes, its peer p is still Counting with the lock of t on it, and the
\* seed iterator has gone past p: its take() on p has failed
LockedOutWitness ==
    \E t \in TaskIds : \E p \in Range(tasks[t].lock) :
        /\ Executing(t)
        /\ Bits(borrow[p]) = 0 /\ Cnt(borrow[p]) >= 1
        /\ head[p] = "none"
        /\ iter[Seed].pos > p + 1

\* the unlock iterator of t has made at least one unlock()
Unlocking(t) == head[t] = "iter" /\ UnlocksMade(t) >= 1
\* p was taken by the unlock iterator of t in this run
TakenBy(t, p) == head[p] # "none" /\ parent[p] = t

\* C17: the handle of t is released after the closure of t returns and before
\* the first unlock() of t's unlock phase, so the cell of t is Completed while
\* t's unlock iterator unlocks and while a task it took is executed
ReleaseBeforeUnlock ==
    \A t \in TaskIds :
        /\ Unlocking(t) => IsCompleted(borrow[t])
        /\ \A p \in TaskIds : TakenBy(t, p) /\ Started(p) => IsCompleted(borrow[t])

\* C17, as the code has it: the handle of t is released only when the head
\* closure of t ends, after the unlock iterator of t is exhausted and the head
\* closures of all tasks it took have ended; until then, the closure of t and
\* the whole unlock phase included, the cell of t is Running
ReleaseAfterUnlock ==
    \A t \in TaskIds :
        /\ head[t] \in {"held", "ready", "exec", "iter"} => IsRunning(borrow[t])
        /\ head[t] = "done" =>
              /\ IsCompleted(borrow[t])
              /\ iter[t].st = "end"
              /\ \A p \in TaskIds : TakenBy(t, p) => head[p] = "done"

\* a task that the unlock iterator of t took is executing, t still Running
ReleaseAfterUnlockWitness ==
    \E t, p \in TaskIds :
        /\ Unlocking(t) /\ IsRunning(borrow[t])
        /\ TakenBy(t, p) /\ Executing(p)

\* the place of p in the sequence f without repetitions, 0 when not in it
IndexOf(f, p) == IF p \in Range(f) THEN CHOOSE i \in 1 .. Len(f) : f[i] = p ELSE 0

\* the lock phase of t is under way, or it unwound and the handle of t was
\* dropped, and its lock() on p has been made
LockingDone(t, p) ==
    /\ head[t] \in {"held", "dropped"}
    /\ \E s \in Iters : /\ iter[s].st \in {"lock", "lock_undo", "lock_unwind", "panic"}
                         /\ iter[s].cur = t /\ parent[t] = s
                         /\ IndexOf(tasks[t].lock, p) < iter[s].lpos

\* the tasks whose lock() on p has not been matched by their unlock() yet
Holders(p) ==
    {t \in TaskIds : p \in Range(tasks[t].lock)
                        /\ (LockingDone(t, p) \/ Holding(t, p))}

\* C18: every cell is Counting(k), or Running with CNT = 0, or Completed with
\* CNT = 0, in every state of a run
LegalConfigurations ==
    \A t \in TaskIds :
        \/ Bits(borrow[t]) = 0
        \/ IsRunning(borrow[t]) /\ Cnt(borrow[t]) = 0
        \/ IsCompleted(borrow[t]) /\ Cnt(borrow[t]) = 0

\* C18, as the code has it: LOCK_BIT and COMP_BIT are never both set; a
\* Running or Completed cell carries in CNT the number of peers that have
\* locked it and not yet unlocked it, which can be more than 0; when run has
\* returned every cell is Completed with CNT = 0
CountedConfigurations ==
    /\ \A t \in TaskIds :
            /\ Bits(borrow[t]) \in {0, 1, 2}
            /\ Bits(borrow[t]) # 0 => Cnt(borrow[t]) = Cardinality(Holders(t))
    /\ stage = "built" => \A t \in TaskIds : borrow[t] = COMP_BIT

\* a Completed cell that an executing peer has locked
CountedConfigurationsWitness ==
    \E t, p \in TaskIds :
        /\ Executing(t) /\ p \in Range(tasks[t].lock)
        /\ IsCompleted(borrow[p]) /\ Cnt(borrow[p]) >= 1

\* the unlock() of t's unlock iterator on p has returned true and the take()
\* that follows it has not been made yet
Observed(t, p) == iter[t].st = "take" /\ iter[t].cur = p

\* C19: the worker whose unlock() on p returned true makes the next take() on
\* p and that take() succeeds: until then p stays Counting(0), no other worker
\* takes it and no lock() reaches it
UnlockerOwns ==
    \A t, p \in TaskIds : Observed(t, p) => take_ok(borrow[p]) /\ head[p] = "none"

\* C19, as the code has it, at the return of unlock(): p is Counting(0) and has
\* not been taken in this run
ObservedReady ==
    \A t, p \in TaskIds :
        ~Observed(t, p) /\ Observed(t, p)' => borrow'[p] = 0 /\ head'[p] = "none"

\* C19, as the code has it, until the take(): p is still Counting(0), or
\* another iterator has taken it, or a peer of p has locked it
ObservedOrRaced ==
    \A t, p \in TaskIds :
        Observed(t, p) =>
            \/ take_ok(borrow[p]) /\ head[p] = "none"
            \/ head[p] # "none" /\ parent[p] # t
            \/ /\ head[p] = "none" /\ Bits(borrow[p]) = 0
               /\ Cnt(borrow[p]) = Cardinality(Holders(p)) /\ Holders(p) # {}

\* C19, as the code has it: the take() after an unlock() that returned true
\* succeeds unless another take() or a lock() on p came in between
UnlockerOwnsUnlessRaced == [][ObservedReady]_vars /\ []ObservedOrRaced

\* the seed iterator took p between the unlock() that returned true and the
\* take() of the unlocker, which will fail
UnlockerOwnsUnlessRacedWitness ==
    \E t, p \in TaskIds :
        /\ Observed(t, p)
        /\ head[p] # "none" /\ parent[p] = Seed

\* the tasks that list t in their lock set
Lockers(t) == {a \in DOMAIN tasks : t \in Range(tasks[a].lock)}

\* the entries for t in the unlock lists of the tasks 0 .. k - 1: the unlock()
\* calls made on t in one run
RECURSIVE UnlocksOf(_, _)
UnlocksOf(t, k) ==
    IF k = 0 THEN 0 ELSE Occurrences(tasks[k - 1].unlock, t) + UnlocksOf(t, k - 1)

\* C20: after build(), initial of t is the number of its explicit predecessors
\* plus the number of tasks that list t in their lock set
InitialWithLocks ==
    stage # "declare" =>
        \A t \in DOMAIN tasks :
            tasks[t].initial
                = Len(TB(builderTasks, t).dependencies) + Cardinality(Lockers(t))

\* C20, as the code has it: initial of t is the number of entries in the list
\* of explicit predecessors of t and holds nothing for the lock sets; the
\* unlock() calls a run makes on t are that many plus one for every task
\* that lists t in its lock set, whose lock() comes at run time
InitialIsPredecessors ==
    stage # "declare" =>
        \A t \in DOMAIN tasks :
            /\ tasks[t].initial = Len(TB(builderTasks, t).dependencies)
            /\ tasks[t].initial + Cardinality(Lockers(t)) = UnlocksOf(t, Len(builderTasks))

\* a built task with an explicit predecessor that is also in a lock set
InitialIsPredecessorsWitness ==
    /\ stage = "built" /\ Len(builderTasks) = MaxTasks
    /\ \E t \in DOMAIN tasks :
            /\ tasks[t].initial = 1
            /\ Cardinality(Lockers(t)) = MaxTasks - 1

----------------------------------------------------------------------------
(* Properties of the compiled tasks *)

\* the resources on which a and b conflict
ConflictResources(a, b) ==
    (TB(builderTasks, a).writes
        \cap (TB(builderTasks, b).writes \cup TB(builderTasks, b).reads))
    \cup (TB(builderTasks, b).writes
        \cap (TB(builderTasks, a).writes \cup TB(builderTasks, a).reads))

\* C21: after build(), a is in the lock set of b exactly when a # b and the two
\* conflict on some resource; the relation is symmetric, no task is in its own
\* lock set, tasks that share resources only as readers are not in each
\* other's, and a peer is listed once however many resources are shared
LockSetsAreConflicts ==
    stage # "declare" =>
        \A a, b \in DOMAIN tasks :
            /\ a \in Range(tasks[b].lock) <=> (a # b /\ ConflictResources(a, b) # {})
            /\ a \in Range(tasks[b].lock) <=> b \in Range(tasks[a].lock)
            /\ a \notin Range(tasks[a].lock)
            /\ Occurrences(tasks[b].lock, a) <= 1

\* a and b of the test graph, which conflict on two resources, list each other
\* once, and a run has been made with these lock sets
LockSetsAreConflictsWitness ==
    /\ runs >= 1
    /\ \E a, b \in TaskIds :
            /\ a # b /\ Cardinality(ConflictResources(a, b)) >= 2
            /\ Occurrences(tasks[b].lock, a) = 1
    /\ \E a, b \in TaskIds : a # b /\ ReadShared(a, b) /\ ~Conflict(a, b)

\* the unlock list of t without its last Len(lock) entries, and those entries
DependantPart(t) == SubSeq(tasks[t].unlock, 1, Len(tasks[t].unlock) - Len(tasks[t].lock))
LockPart(t) ==
    SubSeq(tasks[t].unlock, Len(tasks[t].unlock) - Len(tasks[t].lock) + 1,
           Len(tasks[t].unlock))

\* C22: after build(), the unlock list of t is the explicit dependants of t,
\* one entry for every time t occurs in the predecessor list of a later task,
\* dependants in declaration order, followed by every member of the lock set
\* of t once; a dependant of t that also conflicts with t is listed twice
UnlockSequence ==
    stage # "declare" =>
        \A t \in DOMAIN tasks :
            /\ Len(tasks[t].unlock) >= Len(tasks[t].lock)
            /\ \A d \in DOMAIN tasks :
                    Occurrences(DependantPart(t), d)
                        = Occurrences(TB(builderTasks, d).dependencies, t)
            /\ \A i, j \in 1 .. Len(DependantPart(t)) :
                    i < j => DependantPart(t)[i] <= DependantPart(t)[j]
            /\ Range(LockPart(t)) = Range(tasks[t].lock)
            /\ \A d \in DOMAIN tasks : Occurrences(LockPart(t), d) <= 1
            /\ \A d \in Range(tasks[t].lock) :
                    t \in Predecessors(d) => Occurrences(tasks[t].unlock, d) >= 2

\* a task with two dependants, one of which also conflicts with it and is
\* listed twice, after a run made with these lists
UnlockSequenceWitness ==
    /\ runs >= 1
    /\ \E t, c, d \in TaskIds :
            /\ c < d /\ t \in Predecessors(c) /\ t \in Predecessors(d)
            /\ d \in Range(tasks[t].lock)
            /\ Occurrences(tasks[t].unlock, d) = 2
            /\ Occurrences(tasks[t].unlock, c) = 1

----------------------------------------------------------------------------
(* Properties of the counters in a run *)

\* the entries of the predecessor list of p whose predecessor has not made
\* the unlock() on p that belongs to the entry, as <<predecessor, place in the
\* predecessor's unlock list>>
PendingPredecessors(p) ==
    {x \in UNION {{<<a, k>> : k \in 1 .. Len(DependantPart(a))} : a \in TaskIds} :
        /\ tasks[x[1]].unlock[x[2]] = p
        /\ x[2] > UnlocksMade(x[1])}

\* C23: in a run, CNT of p is the number of entries of p's predecessor list
\* whose unlock() has not been made plus the number of tasks that have
\* locked p and not made the matching unlock(); when run has returned it is 0
CounterConservation ==
    /\ \A p \in TaskIds :
            stage = "drive" \/ (stage = "init" /\ p < rpos) =>
                Cnt(borrow[p])
                    = Cardinality(PendingPredecessors(p)) + Cardinality(Holders(p))
    /\ RunReturned => \A p \in TaskIds : Cnt(borrow[p]) = 0

\* the counter of p holds at once a predecessor that has not unlocked p and a
\* peer that has locked p
CounterConservationWitness ==
    /\ stage = "drive"
    /\ \E p \in TaskIds :
            /\ Cardinality(PendingPredecessors(p)) >= 1
            /\ Cardinality(Holders(p)) >= 1
            /\ Cnt(borrow[p]) >= 2

----------------------------------------------------------------------------
(* Further properties of a CountCell *)

\* C24: the release of a handle flips LOCK_BIT and COMP_BIT and leaves CNT as
\* it is: a Running cell with counter c becomes a Completed cell with counter
\* c; a Completed cell can be reset exactly when its CNT is 0
ReleaseFlips ==
    /\ last.op = "drop" =>
          /\ Cnt(last.new) = Cnt(last.old)
          /\ Bits(last.new) = 3 - Bits(last.old)
          /\ IsRunning(last.old) => IsCompleted(last.new)
    /\ IsCompleted(cell) => (reset_ok(cell) <=> Cnt(cell) = 0)
    /\ last.op = "reset" /\ IsCompleted(last.old) =>
          (last.res = "ok" <=> Cnt(last.old) = 0)

\* a handle was released on a Running cell that peers had locked
ReleaseFlipsWitness ==
    /\ last.op = "drop"
    /\ IsRunning(last.old) /\ Cnt(last.old) >= 1
    /\ cell = last.new

----------------------------------------------------------------------------
(* The state bits in a run *)

\* w & LOCK_BIT != 0, w & COMP_BIT != 0
LockBitSet(w) == w \div LOCK_BIT = 1
CompBitSet(w) == (w \div COMP_BIT) % 2 = 1

\* the state bits of t change as take(), the release or reset() change them
BitsStep(t) ==
    \/ LockBitSet(borrow'[t]) = LockBitSet(borrow[t])
          /\ CompBitSet(borrow'[t]) = CompBitSet(borrow[t])
    \/ borrow[t] = 0 /\ borrow'[t] = LOCK_BIT
    \/ /\ LockBitSet(borrow[t]) /\ ~CompBitSet(borrow[t])
       /\ ~LockBitSet(borrow'[t]) /\ CompBitSet(borrow'[t])
       /\ Cnt(borrow'[t]) = Cnt(borrow[t])
    \/ borrow[t] = COMP_BIT /\ Bits(borrow'[t]) = 0

\* C25: no cell word of a run has LOCK_BIT and COMP_BIT both set, in any
\* state; the bits change only from neither to LOCK_BIT (take), from LOCK_BIT
\* to COMP_BIT in one step (release) and from COMP_BIT to neither (reset)
NeverBothBits ==
    /\ [](\A t \in TaskIds : ~(LockBitSet(borrow[t]) /\ CompBitSet(borrow[t])))
    /\ [][\A t \in TaskIds : BitsStep(t)]_vars

\* a cell that a peer locked while it was Running has been released
NeverBothBitsWitness ==
    \E t \in TaskIds :
        /\ head[t] = "done" /\ stage = "drive"
        /\ CompBitSet(borrow[t]) /\ ~LockBitSet(borrow[t])
        /\ Cnt(borrow[t]) >= 1

----------------------------------------------------------------------------
(* The counter at its maximum *)

\* C26: a lock() made when CNT is at its maximum panics and, no other call
\* coming in between, leaves the word as it was, whether the cell is
\* Counting, Running or Completed; no lock() carries CNT into the state bits
OverflowFatal ==
    /\ last.op = "lock" /\ Cnt(last.old) = CNT_MASK /\ Bits(last.old) \in {0, 1, 2} =>
          last.res = "panic" /\ (last.alone => last.new = last.old)
    /\ last.op = "lock" /\ last.res = "ok" /\ Bits(last.old) \in {0, 1, 2} =>
          Bits(last.new) = Bits(last.old)

====
